---- MODULE Spec2Model ----
(***************************************************************************)
(* Model of src/app.py: RewardVideoTerminalApp, the interactive rewarded-   *)
(* video terminal workflow.  One run() executes `runs` cycles; each cycle   *)
(* notifies, optionally opens the video, waits watch_seconds ticks, asks    *)
(* the operator one or two questions, appends one event record to the log   *)
(* file and bumps one of the two counters of AppStats.                      *)
(*                                                                          *)
(* Strings that the code inspects character by character (the lines read    *)
(* by input(), the tokens they are compared with) are tuples of one-letter  *)
(* strings; the other strings (identifiers, paths) are opaque.              *)
(***************************************************************************)
EXTENDS Integers, Sequences, FiniteSets, TLC

(* ------------------------------ bounds --------------------------------- *)

\* largest configured run count (RUNS); the model also tries 0 and -1
MaxRuns == 2

\* largest configured watch duration (WATCH_SECONDS); also 0 and -1
MaxWatch == 1

\* invalid lines the operator may type at one prompt
MaxInvalid == 2

\* turns of the loop head of run() (line 126) in one behaviour, over all
\* run() calls on all app instances; a run() is started only if all its
\* turns fit
MaxLoopTests == 6

(* ------------------------- tokens and lines ---------------------------- *)

Y == <<"y">>

N == <<"n">>

SHARE == <<"s", "h", "a", "r", "e">>

REJECT == <<"r", "e", "j", "e", "c", "t">>

\* allowed sets passed to _prompt_choice
WatchedAllowed == {Y, N}

FinalAllowed == {SHARE, REJECT}

\* lines the operator may type (what input() returns, newline removed)
Lines ==
  { <<"y">>, <<" ", "Y">>, <<"n">>,
    SHARE, <<"S", "h", "a", "r", "e", " ">>, REJECT,
    <<>>, <<"y", "e", "s">> }

\* no line read yet in this cycle
NoLine == <<"-">>

\* one character of str.lower()
LowerChar(c) ==
  CASE c = "Y" -> "y"
    [] c = "N" -> "n"
    [] c = "S" -> "s"
    [] c = "H" -> "h"
    [] c = "A" -> "a"
    [] c = "R" -> "r"
    [] c = "E" -> "e"
    [] c = "J" -> "j"
    [] c = "C" -> "c"
    [] c = "T" -> "t"
    [] OTHER -> c

\* str.lower()
Lower(s) == [i \in 1..Len(s) |-> LowerChar(s[i])]

RECURSIVE LStrip(_)
\* leading whitespace removed
LStrip(s) ==
  IF s = <<>> THEN s
  ELSE IF s[1] = " " THEN LStrip(Tail(s)) ELSE s

RECURSIVE RStrip(_)
\* trailing whitespace removed
RStrip(s) ==
  IF s = <<>> THEN s
  ELSE IF s[Len(s)] = " " THEN RStrip(SubSeq(s, 1, Len(s) - 1)) ELSE s

\* str.strip()
Strip(s) == RStrip(LStrip(s))

\* line 73: input(prompt).strip().lower()
Normalize(line) == Lower(Strip(line))

(* ------------------------------ state ---------------------------------- *)

VARIABLES
  app_id,         \* self.app_id
  ad_unit_id,     \* self.ad_unit_id
  api_key,        \* self.api_key
  runs,           \* self.runs
  watch_seconds,  \* self.watch_seconds
  video_url,      \* self.video_url
  log_file,       \* self.log_file ("" is Path(""), the current directory)
  strict_mode,    \* strict-mode flag of the environment; app.py never reads it
  installed,      \* googleapiclient.discovery can be imported on this host
  buildOk,        \* build("admob", "v1", ...) succeeds on this host
  notifier,       \* notify-send is on the PATH
  opener,         \* xdg-open is on the PATH
  shares,         \* self.stats.shares
  rejects,        \* self.stats.rejects
  store,          \* the lines of the event log file, one record each
  clock,          \* seconds of UTC time gone by since the process started
  pc,             \* where the (single) thread is
  index,          \* loop variable of run()
  second,         \* loop variable of the presentation ticks
  watched,        \* local of play_reward_video: answer to the first prompt
  action,         \* local of run(): the outcome of the current cycle
  questions,      \* the questions put to the operator in this cycle
  prompts,        \* times the pending _prompt_choice displayed its prompt
  invalids,       \* "Valeur invalide" lines the pending _prompt_choice printed
  lastInput,      \* local user_input of the pending _prompt_choice, raw
  answers,        \* the values _prompt_choice returned in this cycle
  instance,       \* which RewardVideoTerminalApp object this is (1, 2, ...)
  runCalls,       \* run() calls on this instance so far
  loopTests,      \* loop-head turns the run() calls so far account for
  completed,      \* loop bodies of this run that reached line 138
  started,        \* cycle indices this run started, in order
  resolved,       \* outcomes play_reward_video returned in this run, in order
  heard,          \* values _prompt_choice returned in this run, in order
  runStartLen,    \* length of the event log when this run started
  statsAtStart,   \* the counters when this run started
  store0,         \* the event log before the first run
  summary,        \* lines 140-142 printed by this run
  error           \* the exception that ended this run, or "none"

cfgVars == <<app_id, ad_unit_id, api_key, runs, watch_seconds, video_url,
             log_file, strict_mode, installed, buildOk, notifier, opener,
             store0>>

statsVars == <<shares, rejects>>

promptVars == <<watched, questions, prompts, invalids, lastInput, answers>>

runVars == <<completed, started, resolved, heard, runStartLen, statsAtStart,
            summary, error>>

callVars == <<instance, runCalls, loopTests>>

vars == <<cfgVars, statsVars, store, clock, pc, index, second, action,
          promptVars, runVars, callVars>>

NoAction == <<>>

NoAnswer == <<>>

\* a record some earlier process left in the log file
PriorRecord ==
  [timestamp |-> 0, cycle |-> 1, action |-> REJECT, app_id |-> "old",
   ad_unit_id |-> "old"]

\* os.getenv(...) values tried for RUNS and WATCH_SECONDS
RunsValues == (-1) .. MaxRuns

WatchValues == (-1) .. MaxWatch

\* ADMOB_APP_ID, ADMOB_REWARDED_AD_UNIT_ID, GOOGLE_API_KEY,
\* REWARDED_VIDEO_URL, the strict-mode flag, and what the host offers (the
\* Google client library, a working build(), notify-send, xdg-open).  Seven
\* environments in which every pair of values of every two of the nine
\* occurs.
SettingValues ==
  { [app_id |-> "", ad_unit_id |-> "", api_key |-> "", video_url |-> "",
     strict_mode |-> TRUE, installed |-> FALSE, buildOk |-> FALSE,
     notifier |-> FALSE, opener |-> FALSE],
    [app_id |-> "", ad_unit_id |-> "unit", api_key |-> "key",
     video_url |-> "url", strict_mode |-> FALSE, installed |-> FALSE,
     buildOk |-> FALSE, notifier |-> FALSE, opener |-> TRUE],
    [app_id |-> "app", ad_unit_id |-> "", api_key |-> "key",
     video_url |-> "url", strict_mode |-> FALSE, installed |-> TRUE,
     buildOk |-> FALSE, notifier |-> FALSE, opener |-> FALSE],
    [app_id |-> "app", ad_unit_id |-> "unit", api_key |-> "",
     video_url |-> "url", strict_mode |-> FALSE, installed |-> FALSE,
     buildOk |-> FALSE, notifier |-> TRUE, opener |-> FALSE],
    [app_id |-> "app", ad_unit_id |-> "unit", api_key |-> "key",
     video_url |-> "", strict_mode |-> FALSE, installed |-> FALSE,
     buildOk |-> TRUE, notifier |-> FALSE, opener |-> FALSE],
    [app_id |-> "app", ad_unit_id |-> "unit", api_key |-> "key",
     video_url |-> "url", strict_mode |-> TRUE, installed |-> TRUE,
     buildOk |-> TRUE, notifier |-> TRUE, opener |-> TRUE],
    [app_id |-> "", ad_unit_id |-> "", api_key |-> "", video_url |-> "",
     strict_mode |-> FALSE, installed |-> TRUE, buildOk |-> TRUE,
     notifier |-> TRUE, opener |-> TRUE] }

\* EVENTS_LOG_FILE and what the file holds before the first run; "" names
\* no file
LogValues ==
  { [log_file |-> "", store0 |-> <<>>],
    [log_file |-> "events_log.jsonl", store0 |-> <<>>],
    [log_file |-> "events_log.jsonl", store0 |-> <<PriorRecord>>] }

\* turns of the loop head one run() takes: one per index, one to leave
LoopTests(n) == IF n > 0 THEN n + 1 ELSE 1

(* --------------------- helpers translated from app.py ------------------ *)

\* faulty variant: the counters are shared by all instances (class-level state)
SharedStats == [shares |-> shares, rejects |-> rejects]

\* AppStats(): both counters at their dataclass defaults
NewStats == [shares |-> 0, rejects |-> 0]

\* faulty variant: range(1, self.runs), the last index is lost
RangeStopsEarly(i, n) == i + 1 < n

\* faulty variant: the loop body is entered once before the range is tested
RangeAtLeastOnce(i, n) == i + 1 <= n \/ i = 0

\* `for index in range(1, self.runs + 1)`: is there an index after i?
RangeHasNext(i, n) == i + 1 <= n

\* faulty variant: an unrecognised line is taken as "reject" instead of asked again
PromptChoiceDefaulting(line, allowed) ==
  IF Normalize(line) \in allowed
    THEN [returned |-> TRUE, value |-> Normalize(line)]
    ELSE [returned |-> TRUE, value |-> REJECT]

\* faulty variant: the test of line 74 never succeeds
PromptChoiceNeverReturns(line, allowed) ==
  [returned |-> FALSE, value |-> Normalize(line)]

\* _prompt_choice, one turn of its loop on the line read: does it return,
\* and what
PromptChoice(line, allowed) ==
  [returned |-> Normalize(line) \in allowed, value |-> Normalize(line)]

\* faulty variant: the test of line 113 inverted
ForcedRejectOnYes(w) == w = Y

\* faulty variant: a cycle whose video could not be shown is rejected outright
ForcedRejectIfNotShown(w) == w = N \/ video_url = ""

\* line 113: `if watched == "n": return "reject"`
ForcedReject(w) == w = N

\* faulty variant: the record carries a 0-based cycle index
EventRecordZeroBased(cycle, act) ==
  [timestamp |-> clock, cycle |-> cycle - 1, action |-> act,
   app_id |-> app_id, ad_unit_id |-> ad_unit_id]

\* faulty variant: the timestamp was taken once, when the process started
EventRecordStaleStamp(cycle, act) ==
  [timestamp |-> 0, cycle |-> cycle, action |-> act, app_id |-> app_id,
   ad_unit_id |-> ad_unit_id]

\* the event dictionary of _log_event (lines 88-94); datetime.now is read
\* when the dictionary is built, right before the write
EventRecord(cycle, act) ==
  [timestamp |-> clock, cycle |-> cycle, action |-> act, app_id |-> app_id,
   ad_unit_id |-> ad_unit_id]

\* faulty variant: the line is written twice
AppendLineTwice(file, rec) == Append(Append(file, rec), rec)

\* faulty variant: the file is opened with "w", the record replaces its content
AppendLineTruncating(file, rec) == <<rec>>

\* open("a") + write: the record goes after what the file holds
AppendLine(file, rec) == Append(file, rec)

\* Path("") is the current directory: open() on it raises IsADirectoryError
IsDirectory(path) == path = ""

\* faulty variant: the outcome is compared with the token in upper case
CountsAsShareUpper(act) == act = <<"S", "H", "A", "R", "E">>

\* line 131: `if action == "share"`
CountsAsShare(act) == act = SHARE

\* faulty variant: the else branch of line 134 is missing
CountOutcomeShareOnly(stats, act) ==
  IF CountsAsShare(act) THEN [stats EXCEPT !.shares = @ + 1] ELSE stats

\* faulty variant: the two branches of lines 131-136 exchanged
CountOutcomeSwapped(stats, act) ==
  IF CountsAsShare(act)
    THEN [stats EXCEPT !.rejects = @ + 1]
    ELSE [stats EXCEPT !.shares = @ + 1]

\* lines 131-136: the counters after a cycle whose outcome is act
CountOutcome(stats, act) ==
  IF CountsAsShare(act)
    THEN [stats EXCEPT !.shares = @ + 1]
    ELSE [stats EXCEPT !.rejects = @ + 1]

\* setup_google_sdk: which of its four ends is taken
SetupOutcome(inst, key, ok) ==
  IF ~inst THEN "not_installed"
  ELSE IF key = "" THEN "no_key"
  ELSE IF ok THEN "initialised"
  ELSE "warned"

\* what setup_google_sdk raises inside itself, for the end it takes
SetupRaises(outcome) ==
  CASE outcome = "not_installed" -> "ModuleNotFoundError"
    [] outcome = "warned" -> "Exception"
    [] OTHER -> "none"

\* what subprocess.run raises when the program it names is or is not there
SubprocessRaises(present) == IF present THEN "none" ELSE "FileNotFoundError"

\* faulty variant: the except clauses are missing
CatchesNothing(step, exc) == exc = "none"

\* the except clauses of lines 50 and 61 (setup_google_sdk), 68 (notify)
\* and 84 (_open_video_if_configured): does the step get past exc?
Catches(step, exc) ==
  \/ exc = "none"
  \/ step = "setup" /\ exc \in {"ModuleNotFoundError", "Exception"}
  \/ step \in {"notify", "open"} /\ exc = "FileNotFoundError"

\* the locals of one loop body, before the body has set them
FreshCycle ==
  /\ second' = 0
  /\ watched' = NoAnswer
  /\ action' = NoAction
  /\ questions' = <<>>
  /\ prompts' = 0
  /\ invalids' = 0
  /\ lastInput' = NoLine
  /\ answers' = <<>>

\* _prompt_choice is entered: its prompt is displayed and input() blocks
EnterPrompt(question) ==
  /\ questions' = Append(questions, question)
  /\ prompts' = 1
  /\ invalids' = 0
  /\ lastInput' = NoLine

\* _prompt_choice has returned the normalised form of `line`
LeavePrompt(line) ==
  /\ prompts' = 0
  /\ invalids' = 0
  /\ lastInput' = line

\* line 76 and back to line 73: the complaint, then the same prompt again
Reprompt(line) ==
  /\ invalids' = invalids + 1
  /\ prompts' = prompts + 1
  /\ lastInput' = line

\* play_reward_video has returned: its frame is gone
ReturnedFromPlay ==
  /\ watched' = NoAnswer
  /\ questions' = <<>>
  /\ answers' = <<>>
  /\ lastInput' = NoLine
  /\ UNCHANGED <<prompts, invalids>>

(* ------------------------------ Init ----------------------------------- *)

\* __main__ (lines 145-155): the app is built from the environment
Init ==
  /\ runs \in RunsValues
  /\ watch_seconds \in WatchValues
  /\ \E p \in SettingValues :
       /\ app_id = p.app_id
       /\ ad_unit_id = p.ad_unit_id
       /\ api_key = p.api_key
       /\ video_url = p.video_url
       /\ strict_mode = p.strict_mode
       /\ installed = p.installed
       /\ buildOk = p.buildOk
       /\ notifier = p.notifier
       /\ opener = p.opener
  /\ \E l \in LogValues :
       /\ log_file = l.log_file
       /\ store0 = l.store0
  /\ store = store0
  /\ clock = 0
  /\ shares = 0
  /\ rejects = 0
  /\ pc = "ready"
  /\ index = 0
  /\ second = 0
  /\ watched = NoAnswer
  /\ action = NoAction
  /\ questions = <<>>
  /\ prompts = 0
  /\ invalids = 0
  /\ lastInput = NoLine
  /\ answers = <<>>
  /\ instance = 1
  /\ runCalls = 0
  /\ loopTests = 0
  /\ completed = 0
  /\ started = <<>>
  /\ resolved = <<>>
  /\ heard = <<>>
  /\ runStartLen = Len(store0)
  /\ statsAtStart = [shares |-> 0, rejects |-> 0]
  /\ summary = FALSE
  /\ error = "none"

(* ----------------------------- actions --------------------------------- *)

\* __init__ again, from the same environment: a new app object
Construct ==
  /\ pc \in {"done", "failed"}
  /\ loopTests + LoopTests(runs) <= MaxLoopTests
  /\ instance' = instance + 1
  /\ runCalls' = 0
  /\ shares' = NewStats.shares
  /\ rejects' = NewStats.rejects
  /\ pc' = "ready"
  /\ UNCHANGED <<cfgVars, clock, store, index, second, action, promptVars,
                 runVars, loopTests>>

\* run(), lines 119-123: the banner
RunBanner ==
  /\ pc \in {"ready", "done", "failed"}
  /\ loopTests + LoopTests(runs) <= MaxLoopTests
  /\ runCalls' = runCalls + 1
  /\ loopTests' = loopTests + LoopTests(runs)
  /\ pc' = "setup"
  /\ index' = 0
  /\ completed' = 0
  /\ started' = <<>>
  /\ resolved' = <<>>
  /\ heard' = <<>>
  /\ runStartLen' = Len(store)
  /\ statsAtStart' = [shares |-> shares, rejects |-> rejects]
  /\ summary' = FALSE
  /\ error' = "none"
  /\ FreshCycle
  /\ UNCHANGED <<cfgVars, clock, statsVars, store, instance>>

\* setup_google_sdk: the library is missing, the key is absent, the client
\* is built or build() raises; an exception its except clauses do not
\* catch would end run()
SetupGoogleSdk ==
  /\ pc = "setup"
  /\ LET exc == SetupRaises(SetupOutcome(installed, api_key, buildOk)) IN
       IF Catches("setup", exc)
         THEN pc' = "loop" /\ error' = error
         ELSE pc' = "failed" /\ error' = exc
  /\ UNCHANGED <<cfgVars, clock, statsVars, store, index, second, action,
                 promptVars, completed, started, resolved, heard, runStartLen,
                 statsAtStart, summary, callVars>>

\* lines 126-127: the next index of the range starts a cycle; at the end of
\* the range the loop is left
LoopNext ==
  /\ pc = "loop"
  /\ IF RangeHasNext(index, runs)
       THEN /\ index' = index + 1
            /\ started' = Append(started, index + 1)
            /\ pc' = "idle"
       ELSE /\ pc' = "summary"
            /\ UNCHANGED <<index, started>>
  /\ UNCHANGED <<cfgVars, clock, statsVars, store, second, action, promptVars,
                 completed, resolved, heard, runStartLen, statsAtStart,
                 summary, error, callVars>>

\* notify (line 100): the message is printed and notify-send is run
Notify ==
  /\ pc = "idle"
  /\ LET exc == SubprocessRaises(notifier) IN
       IF Catches("notify", exc)
         THEN pc' = "open" /\ error' = error
         ELSE pc' = "failed" /\ error' = exc
  /\ UNCHANGED <<cfgVars, clock, statsVars, store, index, second, action,
                 promptVars, completed, started, resolved, heard, runStartLen,
                 statsAtStart, summary, callVars>>

\* _open_video_if_configured (line 101): nothing without a URL, else
\* xdg-open is run; then the "Patientez" line (103-106)
OpenVideo ==
  /\ pc = "open"
  /\ LET exc == IF video_url = "" THEN "none" ELSE SubprocessRaises(opener) IN
       IF Catches("open", exc)
         THEN pc' = "present" /\ error' = error
         ELSE pc' = "failed" /\ error' = exc
  /\ second' = 0
  /\ UNCHANGED <<cfgVars, clock, statsVars, store, index, action, promptVars,
                 completed, started, resolved, heard, runStartLen,
                 statsAtStart, summary, callVars>>

\* one turn of the loop of lines 107-109: time.sleep(1) lets a second go by
Tick ==
  /\ pc = "present"
  /\ second < watch_seconds
  /\ second' = second + 1
  /\ clock' = clock + 1
  /\ UNCHANGED <<cfgVars, statsVars, store, pc, index, action,
                 promptVars, runVars, callVars>>

\* faulty variant: the first question is put without waiting for the ticks
EndPresentationEarly ==
  /\ pc = "present"
  /\ pc' = "watched"
  /\ EnterPrompt("watched")
  /\ UNCHANGED <<cfgVars, clock, statsVars, store, index, second, action,
                 watched, answers, runVars, callVars>>

\* the range of line 107 is exhausted; line 110; line 112 puts the first
\* question
EndPresentation ==
  /\ pc = "present"
  /\ ~(second < watch_seconds)
  /\ pc' = "watched"
  /\ EnterPrompt("watched")
  /\ UNCHANGED <<cfgVars, clock, statsVars, store, index, second, action,
                 watched, answers, runVars, callVars>>

\* lines 112-116: one line read at the "watched" prompt
PromptWatched ==
  /\ pc = "watched"
  /\ \E line \in Lines :
       LET r == PromptChoice(line, WatchedAllowed) IN
       IF r.returned
         THEN /\ watched' = r.value
              /\ answers' = Append(answers, r.value)
              /\ heard' = Append(heard, r.value)
              /\ IF ForcedReject(r.value)
                   THEN /\ action' = REJECT
                        /\ resolved' = Append(resolved, REJECT)
                        /\ pc' = "resolved"
                        /\ LeavePrompt(line)
                        /\ UNCHANGED questions
                   ELSE /\ pc' = "final"
                        /\ EnterPrompt("final")
                        /\ UNCHANGED <<action, resolved>>
         ELSE /\ invalids < MaxInvalid
              /\ Reprompt(line)
              /\ UNCHANGED <<watched, answers, heard, action, resolved, pc,
                             questions>>
  /\ UNCHANGED <<cfgVars, clock, statsVars, store, index, second, completed,
                 started, runStartLen, statsAtStart, summary, error, callVars>>

\* line 116: one line read at the "final action" prompt
PromptFinal ==
  /\ pc = "final"
  /\ \E line \in Lines :
       LET r == PromptChoice(line, FinalAllowed) IN
       IF r.returned
         THEN /\ answers' = Append(answers, r.value)
              /\ heard' = Append(heard, r.value)
              /\ action' = r.value
              /\ resolved' = Append(resolved, r.value)
              /\ pc' = "resolved"
              /\ LeavePrompt(line)
         ELSE /\ invalids < MaxInvalid
              /\ Reprompt(line)
              /\ UNCHANGED <<answers, heard, action, resolved, pc>>
  /\ UNCHANGED <<cfgVars, clock, statsVars, store, index, second, watched,
                 questions, completed, started, runStartLen, statsAtStart,
                 summary, error, callVars>>

\* line 73 at end of input: input() raises EOFError, which nothing catches
PromptEOF ==
  /\ pc \in {"watched", "final"}
  /\ pc' = "failed"
  /\ error' = "EOFError"
  /\ FreshCycle
  /\ UNCHANGED <<cfgVars, clock, statsVars, store, index, completed, started,
                 resolved, heard, runStartLen, statsAtStart, summary,
                 callVars>>

\* faulty variant: _log_event swallows the OSError and the cycle goes on
LogEventSwallowing ==
  /\ pc = "resolved"
  /\ \E writable \in BOOLEAN :
       /\ store' = IF writable /\ ~IsDirectory(log_file)
                     THEN AppendLine(store, EventRecord(index, action))
                     ELSE store
       /\ pc' = "recorded"
       /\ UNCHANGED <<error, action, second>>
       /\ ReturnedFromPlay
  /\ UNCHANGED <<cfgVars, clock, statsVars, index, completed, started,
                 resolved, heard, runStartLen, statsAtStart, summary,
                 callVars>>

\* _log_event (line 129): the record is appended, or mkdir/open raises
LogEvent ==
  /\ pc = "resolved"
  /\ \E writable \in BOOLEAN :
       IF writable /\ ~IsDirectory(log_file)
         THEN /\ store' = AppendLine(store, EventRecord(index, action))
              /\ pc' = "recorded"
              /\ UNCHANGED <<error, action, second>>
              /\ ReturnedFromPlay
         ELSE /\ pc' = "failed"
              /\ error' = "OSError"
              /\ store' = store
              /\ FreshCycle
  /\ UNCHANGED <<cfgVars, clock, statsVars, index, completed, started,
                 resolved, heard, runStartLen, statsAtStart, summary,
                 callVars>>

\* lines 131-138: one counter goes up and the loop body ends
Count ==
  /\ pc = "recorded"
  /\ LET after == CountOutcome([shares |-> shares, rejects |-> rejects],
                               action) IN
       /\ shares' = after.shares
       /\ rejects' = after.rejects
  /\ completed' = completed + 1
  /\ pc' = "loop"
  /\ FreshCycle
  /\ UNCHANGED <<cfgVars, clock, store, index, started, resolved, heard,
                 runStartLen, statsAtStart, summary, error, callVars>>

\* lines 140-142: the final totals; run() returns
FinalSummary ==
  /\ pc = "summary"
  /\ summary' = TRUE
  /\ pc' = "done"
  /\ UNCHANGED <<cfgVars, clock, statsVars, store, index, second, action,
                 promptVars, completed, started, resolved, heard, runStartLen,
                 statsAtStart, error, callVars>>

Next ==
  \/ Construct
  \/ RunBanner
  \/ SetupGoogleSdk
  \/ LoopNext
  \/ Notify
  \/ OpenVideo
  \/ Tick
  \/ EndPresentation
  \/ PromptWatched
  \/ PromptFinal
  \/ PromptEOF
  \/ LogEvent
  \/ Count
  \/ FinalSummary

Spec == Init /\ [][Next]_vars

\* the steps the interpreter takes by itself: nothing but input() and the
\* sleeps, which end, blocks the single thread of run()
ProgramStep ==
  \/ SetupGoogleSdk
  \/ LoopNext
  \/ Notify
  \/ OpenVideo
  \/ Tick
  \/ EndPresentation
  \/ LogEvent
  \/ Count
  \/ FinalSummary

\* input() hands _prompt_choice a line that it returns (line 75)
ValidAnswer == (PromptWatched \/ PromptFinal) /\ pc' # pc

\* the environments in which termination is examined: every run count from
\* 0 up, the longest watch duration, the Google client installed with a
\* key (on one host everything else fails, on the other nothing does), an
\* event log that is new or cannot be opened
LiveInit ==
  /\ Init
  /\ runs \in 0..MaxRuns
  /\ watch_seconds = MaxWatch
  /\ installed
  /\ api_key # ""
  /\ store0 = <<>>

\* run() goes on as long as it can, and the operator, whatever else they
\* type, eventually types an allowed token at a prompt that is pending
LiveSpec ==
  LiveInit /\ [][Next]_vars /\ WF_vars(ProgramStep) /\ WF_vars(ValidAnswer)

(* ------------------------- words of the claims ------------------------- *)

\* a run() call is in progress or has ended (normally or by an exception)
InRun == pc # "ready"

\* the thread is blocked in input() at one of the two prompts
AtPrompt == pc \in {"watched", "final"}

\* the allowed set of the question that is pending
AllowedAt(p) == IF p = "watched" THEN WatchedAllowed ELSE FinalAllowed

\* number of cycles a run with run count n has when it returns normally
CyclesOf(n) == IF n > 0 THEN n ELSE 0

\* records this run has appended to the event log
AppendedLen == Len(store) - runStartLen

\* the i-th record this run appended
Appended(i) == store[runStartLen + i]

\* the outcome the operator's valid answers ask for
OutcomeOf(ans) == IF ans[1] = N THEN REJECT ELSE ans[2]

(* ------------------------------- C1 ------------------------------------ *)

\* C1, as stated: in every state of a run, shares + rejects is the number of
\* cycles completed so far in that run, and after a normal return it is runs
C1_SumIsCompletedAndRuns ==
  InRun =>
    /\ shares + rejects = completed
    /\ (pc = "done" => shares + rejects = runs)

\* C1, amended: in every state of the first run() on an app instance,
\* shares + rejects is the number of cycles completed so far in that run;
\* after a normal return it is runs when runs >= 0 and 0 when runs < 0
C1_FirstRunSumIsCompleted ==
  (InRun /\ runCalls = 1) =>
    /\ shares + rejects = completed
    /\ (pc = "done" => shares + rejects = CyclesOf(runs))

C1_Witness ==
  /\ pc = "done"
  /\ runCalls = 1
  /\ runs = 2
  /\ shares = 1
  /\ rejects = 1

(* ------------------------------- C2 ------------------------------------ *)

\* C2: when play_reward_video has returned, the outcome is "reject" with
\* only the first question put if the valid answer to it was "n"; if it was
\* "y" the second question was put and the outcome is the valid token
\* answered to it, the normalised last line read; every outcome ever
\* produced is "share" or "reject"
C2_OutcomeFromValidAnswers ==
  /\ \A i \in 1..Len(resolved) : resolved[i] \in {SHARE, REJECT}
  /\ pc = "resolved" =>
       /\ action \in {SHARE, REJECT}
       /\ \/ /\ answers = <<N>>
             /\ questions = <<"watched">>
             /\ action = REJECT
          \/ /\ Len(answers) = 2
             /\ answers[1] = Y
             /\ questions = <<"watched", "final">>
             /\ answers[2] \in FinalAllowed
             /\ answers[2] = Normalize(lastInput)
             /\ action = answers[2]

C2_Witness ==
  /\ pc = "resolved"
  /\ answers = <<Y, SHARE>>
  /\ lastInput = <<"S", "h", "a", "r", "e", " ">>
  /\ action = SHARE
  /\ resolved = <<REJECT, SHARE>>

(* ------------------------------- C3 ------------------------------------ *)

\* C3: a step that reads a line which is not allowed at the pending prompt
\* displays the same prompt once more and leaves the counters, the event
\* log, the cycle index, the pending question and the answers given so far
\* as they were; the prompt has always been displayed once more than the
\* invalid lines read at it, and the outcome is the one the valid answers
\* ask for
C3_InvalidLineOnlyReprompts ==
  [][ /\ ( /\ AtPrompt
           /\ lastInput' # NoLine
           /\ Normalize(lastInput') \notin AllowedAt(pc) )
        => /\ pc' = pc
           /\ prompts' = prompts + 1
           /\ invalids' = invalids + 1
           /\ UNCHANGED <<shares, rejects, store, index, questions, watched,
                          answers, action, resolved, completed, started>>
      /\ (AtPrompt' => prompts' = invalids' + 1)
      /\ (pc' = "resolved" => action' = OutcomeOf(answers'))
    ]_vars

C3_Witness ==
  /\ pc = "final"
  /\ invalids = 2
  /\ prompts = 3
  /\ lastInput = <<"y", "e", "s">>
  /\ index = 2

(* ------------------------------- C4 ------------------------------------ *)

\* C4: when a run has ended after completing cycles 1..N, it has appended
\* exactly N records to the event log, and the i-th of them has cycle index
\* i and the outcome resolved for cycle i
C4_OneRecordPerCycleInOrder ==
  pc \in {"done", "failed"} =>
    /\ AppendedLen = completed
    /\ \A i \in 1..completed :
         /\ Appended(i).cycle = i
         /\ Appended(i).action = resolved[i]

C4_Witness ==
  /\ pc = "done"
  /\ completed = 2
  /\ runStartLen = 1
  /\ Appended(1).action = SHARE
  /\ Appended(2).action = REJECT

(* ------------------------------- C5 ------------------------------------ *)

\* C5: the cycles a run has started are 1, 2, ... in increasing order with
\* none skipped or repeated; a run that returns normally has started exactly
\* the indices 1..runs; when a cycle starts every earlier cycle has been
\* resolved, recorded and counted
C5_CyclesSequentialAndExact ==
  InRun =>
    /\ started = [i \in 1..index |-> i]
    /\ (pc = "done" => {started[i] : i \in 1..Len(started)} = 1..runs)
    /\ (pc = "idle" =>
          /\ Len(resolved) = index - 1
          /\ AppendedLen = index - 1
          /\ completed = index - 1)

C5_Witness ==
  /\ pc = "idle"
  /\ index = 2
  /\ started = <<1, 2>>

(* ------------------------------- C6 ------------------------------------ *)

\* C6: _log_event either appends the record and returns, or raises; when it
\* raises in cycle k the step changes neither counter nor the log, and the
\* failed run has started no cycle after k, has printed no final summary,
\* has counted cycles 1..k-1 only, and the log still holds their records
C6_LogFailureAbortsRun ==
  [][ /\ (pc = "resolved" /\ pc' # pc) =>
           \/ /\ pc' = "recorded"
              /\ Len(store') = Len(store) + 1
           \/ /\ pc' = "failed"
              /\ error' = "OSError"
              /\ UNCHANGED <<shares, rejects, store>>
      /\ (pc' = "failed" /\ error' = "OSError") =>
           /\ Len(started') = index'
           /\ ~summary'
           /\ completed' = index' - 1
           /\ shares' + rejects'
                = statsAtStart'.shares + statsAtStart'.rejects + index' - 1
           /\ Len(store') = runStartLen' + index' - 1
           /\ \A i \in 1..(index' - 1) :
                /\ store'[runStartLen' + i].cycle = i
                /\ store'[runStartLen' + i].action = resolved'[i]
    ]_vars

C6_Witness ==
  /\ pc = "failed"
  /\ error = "OSError"
  /\ index = 2
  /\ completed = 1
  /\ Len(store) = runStartLen + 1

(* ------------------------------- C7 ------------------------------------ *)

\* C7: with the strict-mode flag set no cycle starts, no record is written,
\* no counter changes and no final summary is printed
C7_StrictRunStartsNoCycle ==
  strict_mode =>
    /\ started = <<>>
    /\ store = store0
    /\ shares = 0
    /\ rejects = 0
    /\ ~summary

(* ------------------------------- C8 ------------------------------------ *)

\* C8: with no event-log destination (empty log_file) recording raises no
\* error, and writes nothing
C8_NoDestinationIsNoOp ==
  log_file = "" => (error # "OSError" /\ store = store0)

(* ------------------------------- C9 ------------------------------------ *)

\* C9: on one app instance, a step that completes a cycle adds exactly 1 to
\* shares if the cycle's outcome is "share" and exactly 1 to rejects
\* otherwise, and leaves the other counter alone; every other step leaves
\* both counters alone
C9_CountedOncePerCycle ==
  [][ instance' = instance =>
        IF completed' = completed + 1
          THEN /\ action \in {SHARE, REJECT}
               /\ action = SHARE =>
                    (shares' = shares + 1 /\ rejects' = rejects)
               /\ action = REJECT =>
                    (rejects' = rejects + 1 /\ shares' = shares)
          ELSE UNCHANGED <<shares, rejects>>
    ]_vars

C9_Witness ==
  /\ pc = "loop"
  /\ completed = 2
  /\ shares = statsAtStart.shares + 1
  /\ rejects = statsAtStart.rejects + 1
  /\ runCalls = 2

(* ------------------------------- C10 ----------------------------------- *)

\* C10, as stated: the counters are {0,0} at the beginning of every run
C10_EveryRunStartsAtZero ==
  pc = "setup" => (shares = 0 /\ rejects = 0)

\* C10, amended: the counters are {0,0} when the first run() of an app
\* instance begins, whatever ran on earlier instances, and that run's final
\* shares + rejects is its own cycle count; run() does not reset them
C10_FreshInstanceStartsAtZero ==
  /\ runCalls = 0 => (shares = 0 /\ rejects = 0)
  /\ runCalls = 1 => statsAtStart = [shares |-> 0, rejects |-> 0]
  /\ (runCalls = 1 /\ pc = "done") => shares + rejects = Len(started)

C10_Witness ==
  /\ instance = 2
  /\ runCalls = 1
  /\ pc = "done"
  /\ shares + rejects = 1
  /\ Len(store) = Len(store0) + 2

(* ------------------------------- C11 ----------------------------------- *)

\* the phase of the cycle state machine the thread is in; a cycle stays
\* Resolved while its record is written and until it is counted
Phase(p) ==
  CASE p = "idle" -> "Idle"
    [] p \in {"open", "present"} -> "Presenting"
    [] p \in {"watched", "final"} -> "AwaitingOutcome"
    [] p \in {"resolved", "recorded"} -> "Resolved"
    [] OTHER -> "None"

\* the phase changes of a cycle that is not cut short by an exception
PhaseOrder ==
  { <<"None", "Idle">>, <<"Idle", "Presenting">>,
    <<"Presenting", "AwaitingOutcome">>, <<"AwaitingOutcome", "Resolved">>,
    <<"Resolved", "None">> }

\* cycles this run has counted
CountedLen ==
  shares + rejects - statsAtStart.shares - statsAtStart.rejects

RECURSIVE Outcomes(_)
\* the outcomes a sequence of valid operator answers asks for: "n" alone is
\* a reject, "y" goes with the token that follows it
Outcomes(h) ==
  IF h = <<>> THEN <<>>
  ELSE IF h[1] = N THEN <<REJECT>> \o Outcomes(Tail(h))
  ELSE IF Len(h) >= 2 THEN <<h[2]>> \o Outcomes(SubSeq(h, 3, Len(h)))
  ELSE <<>>

\* how many of the first n entries of the sequence out are the token t
CountOf(out, n, t) == Cardinality({i \in 1..n : out[i] = t})

\* C12: the outcomes of a run, the increase of its counters and the
\* (cycle, action) pairs of the records it appended are those computed from
\* the operator's valid answers alone, by a rule that reads neither
\* watch_seconds nor video_url nor whether notify-send and xdg-open exist;
\* hence two runs given the same operator inputs agree on all three
C12_OutcomeFromOperatorOnly ==
  InRun =>
    LET out == Outcomes(heard) IN
      /\ resolved = out
      /\ completed <= AppendedLen
      /\ AppendedLen <= Len(out)
      /\ \A i \in 1..AppendedLen :
           /\ Appended(i).cycle = i
           /\ Appended(i).action = out[i]
      /\ shares - statsAtStart.shares = CountOf(out, completed, SHARE)
      /\ rejects - statsAtStart.rejects = CountOf(out, completed, REJECT)
      /\ pc = "done" => (completed = Len(out) /\ AppendedLen = Len(out))

C12_Witness ==
  /\ pc = "done"
  /\ heard = <<Y, SHARE, N>>
  /\ watch_seconds = 1
  /\ video_url # ""
  /\ ~notifier
  /\ ~opener
  /\ shares = 1
  /\ rejects = 1

(* ------------------------------- C13 ----------------------------------- *)

\* the exceptions the peripheral steps raise
PeripheralErrors == {"ModuleNotFoundError", "Exception", "FileNotFoundError"}

\* C13: setup_google_sdk, notify and _open_video_if_configured always hand
\* over to the step that follows them, whatever the host lacks; no run ever
\* ends by an exception of theirs; after setup the first index of a positive
\* run count starts cycle 1; and a run that returns has executed, recorded
\* and counted all its cycles
C13_PeripheralFailuresNotFatal ==
  [][ /\ (pc = "setup" /\ pc' # pc) => (pc' = "loop" /\ index' = 0)
      /\ (pc = "idle" /\ pc' # pc) => pc' = "open"
      /\ (pc = "open" /\ pc' # pc) => pc' = "present"
      /\ error' \notin PeripheralErrors
      /\ (pc = "loop" /\ index = 0 /\ runs >= 1 /\ pc' # pc)
           => (pc' = "idle" /\ started' = <<1>>)
      /\ pc' = "done" =>
           /\ completed' = CyclesOf(runs)
           /\ Len(store') - runStartLen' = CyclesOf(runs)
           /\ CountedLen' = CyclesOf(runs)
    ]_vars

C13_Witness ==
  /\ pc = "done"
  /\ runs = 2
  /\ completed = 2
  /\ AppendedLen = 2
  /\ SetupOutcome(installed, api_key, buildOk) = "warned"
  /\ ~notifier
  /\ video_url # ""
  /\ ~opener

(* ------------------------------- C14 ----------------------------------- *)

\* the sequence s begins with the sequence t
IsPrefix(t, s) == Len(t) <= Len(s) /\ SubSeq(s, 1, Len(t)) = t

\* C14: every step leaves the event log as it was or, being the _log_event
\* of a resolved cycle, adds exactly one record after the existing ones,
\* which stay in place unchanged; so what the log held before the first run
\* is always its beginning
C14_StoreAppendOnly ==
  [][ /\ \/ store' = store
         \/ /\ pc = "resolved"
            /\ Len(store') = Len(store) + 1
            /\ IsPrefix(store, store')
            /\ store'[Len(store')].cycle = index
            /\ store'[Len(store')].action = action
      /\ IsPrefix(store0, store')
    ]_vars

C14_Witness ==
  /\ pc = "recorded"
  /\ store0 = <<PriorRecord>>
  /\ Len(store) = 4
  /\ store[1] = PriorRecord
  /\ runCalls = 2

(* ------------------------------- C15 ----------------------------------- *)

\* C15: the record a step appends carries the time of that very step, and
\* the timestamps of the records a run has appended never decrease from one
\* record to the next
C15_TimestampsAtWriteTime ==
  [][ /\ store' # store =>
           /\ clock' = clock
           /\ store'[Len(store')].timestamp = clock
      /\ \A i \in 1..(Len(store') - runStartLen' - 1) :
           store'[runStartLen' + i].timestamp
             <= store'[runStartLen' + i + 1].timestamp
    ]_vars

C15_Witness ==
  /\ AppendedLen = 2
  /\ watch_seconds = 1
  /\ Appended(1).timestamp = 1
  /\ Appended(2).timestamp = 2
  /\ Appended(2).cycle = 2

(* ------------------------------- C16 ----------------------------------- *)

\* C16, as stated: whatever the operator supplies, end of input included, a
\* pending prompt is left only by _prompt_choice returning a token of its
\* allowed set, and the run is not ended by an exception there
C16_PromptEndsOnlyByAllowedToken ==
  [][ (AtPrompt /\ pc' # pc) =>
        /\ pc' \in {"final", "resolved"}
        /\ error' = "none"
        /\ Len(heard') = Len(heard) + 1
        /\ heard'[Len(heard')] \in AllowedAt(pc)
    ]_vars

(* ------------------------------- C17 ----------------------------------- *)

\* C17: with an operator who eventually types an allowed token at every
\* prompt, a run that has started eventually returns, unless recording fails
\* or the input ends; a run that returns has started, resolved and completed
\* all its cycles and printed the final totals; and a step that reads a
\* line which is not allowed leaves the prompt pending and the run where it
\* was
C17_RunTerminates ==
  /\ (pc = "setup") ~> (pc = "done" \/ error # "none")
  /\ [](pc = "done" =>
          /\ summary
          /\ completed = CyclesOf(runs)
          /\ Len(started) = CyclesOf(runs)
          /\ Len(resolved) = Len(started))
  /\ [][ (AtPrompt /\ lastInput' # NoLine
            /\ Normalize(lastInput') \notin AllowedAt(pc))
         => (pc' = pc /\ UNCHANGED <<completed, resolved, heard, index>>)
     ]_vars

C17_Witness ==
  /\ pc = "done"
  /\ summary
  /\ runs = 2
  /\ completed = 2
  /\ heard = <<Y, REJECT, Y, SHARE>>

(* ------------------------------- C18 ----------------------------------- *)

\* ticks of a cycle whose watch duration is n
TicksOf(n) == IF n > 0 THEN n ELSE 0

\* C18: the tick count of a cycle only goes up one second at a time, during
\* the presentation; it is still 0 while the cycle notifies and opens the
\* video; and whenever a question is put or pending, or the cycle is
\* resolved, exactly watch_seconds ticks have gone by (none if
\* watch_seconds <= 0)
C18_PromptAfterAllTicks ==
  [][ /\ second' # second =>
           \/ pc = "present" /\ pc' = "present" /\ second' = second + 1
                /\ clock' = clock + 1
           \/ second' = 0
      /\ pc' \in {"idle", "open"} => second' = 0
      /\ questions' # questions /\ questions' # <<>>
           => second' = TicksOf(watch_seconds)
      /\ pc' \in {"watched", "final", "resolved"}
           => second' = TicksOf(watch_seconds)
      /\ second' <= TicksOf(watch_seconds)
    ]_vars

C18_Witness ==
  /\ pc = "watched"
  /\ index = 2
  /\ watch_seconds = 1
  /\ second = 1
  /\ questions = <<"watched">>
  /\ clock = 2

(* ------------------------------- C19 ----------------------------------- *)

\* the run is between two cycles, or over
AtCycleBoundary == pc \in {"loop", "summary", "done", "failed"}

\* records with action t among those this run appended
AppendedWith(t) == Cardinality({i \in 1..AppendedLen : Appended(i).action = t})

\* every record this run appended has action "share" or "reject"
AppendedActionsValid ==
  \A i \in 1..AppendedLen : Appended(i).action \in {SHARE, REJECT}

\* C19, as stated: at every cycle boundary of a run and after it, the two
\* counters equal the numbers of "share" and of "reject" records this run
\* appended, and every appended action is one of the two
C19_CountersMatchRunRecords ==
  /\ AppendedActionsValid
  /\ AtCycleBoundary =>
       /\ shares = AppendedWith(SHARE)
       /\ rejects = AppendedWith(REJECT)

\* C19, amended: at every cycle boundary of a run and after it, each counter
\* has grown since the run started by the number of records with its action
\* that this run appended, which makes the counters equal those numbers in
\* the first run on an app instance; every appended action is "share" or
\* "reject"
C19_CounterGrowthMatchesRunRecords ==
  /\ AppendedActionsValid
  /\ AtCycleBoundary =>
       /\ shares - statsAtStart.shares = AppendedWith(SHARE)
       /\ rejects - statsAtStart.rejects = AppendedWith(REJECT)
       /\ runCalls = 1 =>
            /\ shares = AppendedWith(SHARE)
            /\ rejects = AppendedWith(REJECT)

C19_Witness ==
  /\ pc = "done"
  /\ runCalls = 2
  /\ shares = 2
  /\ rejects = 2
  /\ AppendedWith(SHARE) = 1
  /\ AppendedWith(REJECT) = 1

(* ------------------------------- C20 ----------------------------------- *)

\* C20: with a run count of zero or less, run() goes from its banner and the
\* SDK setup straight to the final totals: no cycle is started, nothing is
\* notified, presented, asked or answered, no second is waited, no record is
\* appended, both counters stay 0, no exception ends the run, and a run that
\* has returned has printed its totals
C20_NoCycleWithoutRuns ==
  runs <= 0 =>
    /\ pc \in {"ready", "setup", "loop", "summary", "done"}
    /\ started = <<>>
    /\ questions = <<>>
    /\ heard = <<>>
    /\ resolved = <<>>
    /\ clock = 0
    /\ store = store0
    /\ completed = 0
    /\ shares = 0
    /\ rejects = 0
    /\ error = "none"
    /\ pc = "done" => summary

C20_Witness ==
  /\ runs = -1
  /\ pc = "done"
  /\ summary
  /\ runCalls = 2
  /\ log_file = ""
  /\ ~notifier

====
